---- MODULE Spec2Model ----
(***************************************************************************)
(* AvitoNotify: the reminder / notification core.                          *)
(*                                                                         *)
(* Webhook events (routes/webhook.py) create and clear rows of the         *)
(* reminders table, the scheduler job remind_loop (reminders.py) polls     *)
(* them, and both fan messages out to the Telegram chats linked to the     *)
(* account, gated by the link's mute flag and working hours.               *)
(*                                                                         *)
(* Time is counted in minutes.  A webhook request is one step.  remind_loop *)
(* is cut where a webhook request can change the rows it works on: after   *)
(* its SELECT, and for each row between the conversation-state query and   *)
(* the notification and write that follow it.  A run of morning_digest_tick *)
(* is one step.                                                            *)
(*                                                                         *)
(* APScheduler starts remind_loop every REMIND_AFTER_MIN minutes, up to     *)
(* misfire_grace_time late, and never twice at once.  The timer is left    *)
(* out: a run starts at any minute at which none is in flight, which       *)
(* covers every schedule the timer can produce.  The process may stop and  *)
(* start again at any step.                                                *)
(*                                                                         *)
(* Beside Spec, which runs the webhook, the two jobs and the restart, the   *)
(* module has a specification for each part that is checked by itself:     *)
(* SchedSpec (the scheduler's triggers and runs), HookSpec (the webhook     *)
(* endpoint with unsigned requests), AdminSpec, PolicySpec, GroupSpec and   *)
(* MuteSpec (the bot's commands), WinSpec (the two window evaluators),      *)
(* TokSpec (the token file and its lock) and LiveSpec (the ticks under     *)
(* fair scheduling).                                                       *)
(***************************************************************************)
EXTENDS Integers, FiniteSets, Sequences, TLC

VARIABLES
    clock,      \* wall clock (datetime.now / SQL now()), in minutes
    accounts,   \* notify.accounts: the avito_user_id of every row
    links,      \* notify.account_chat_links: <<account, tg chat>> -> policy
    chats,      \* notify.telegram_chats: the tg_chat_id of every row
    scheduler,  \* the AsyncIOScheduler: per job the next run time and the
                \* number of runs in flight
    reminders,  \* notify.reminders: <<account, avito chat>> -> row
    tick,       \* the remind_loop coroutine (max_instances = 1)
    renotified, \* <<account, avito chat, tg chat>> -> minute at which a
                \* re-notification of the open reminder reached the chat, kept
                \* for less than one reminder interval
    out,        \* what the last step sent, raised and left undone
    tokens,     \* auth: _TOK_LOCK, the token file, AVITO_OWNER_USER_ID and the
                \* calls of get_valid_access_token in flight
    silenced    \* history: the tg chats whose last /mute command said on

vars == <<clock, accounts, links, chats, scheduler, reminders, tick, renotified,
          out, tokens, silenced>>

-----------------------------------------------------------------------------
(* Bounds of the model *)

\* the clock stops here
MaxTime == 2
\* length of a day in minutes, scaled down from 1440
MinutesPerDay == 4
\* the clock of the runs of the scheduler alone stops here
MaxSchedTime == 4

(* Program values *)

\* config.REMIND_AFTER_MIN, an environment setting (default 15): the model
\* runs with an interval of two minutes
REMIND_AFTER_MIN == 2

NULL == 0 - 1

Accounts == {1, 2}             \* avito_user_id of the sellers
Customers == {9}               \* author_id of a customer
UserIds == Accounts \cup Customers
Chats == {1}                   \* avito_chat_id
Dests == {1, 2}                \* tg_chat_id
Times == 0 .. MaxTime
DayMinutes == 0 .. (MinutesPerDay - 1)

\* ZoneInfo(name): the UTC offset in minutes of the zones used
TzOffset(name) == IF name = "Europe/Moscow" THEN 1 ELSE 0

-----------------------------------------------------------------------------
(* Time windows *)

\* now_utc.astimezone(ZoneInfo(tz or "UTC")).time(), to the minute
LocalMinute(now_utc, tz) ==
    LET tzname == IF tz = "null" THEN "UTC" ELSE tz
    IN  (now_utc + TzOffset(tzname)) % MinutesPerDay

\* a window that takes its end in
InWindowClosedEnd(local, start, end) ==
    IF start = NULL \/ end = NULL THEN TRUE
    ELSE IF start = end THEN TRUE
    ELSE IF start < end THEN start <= local /\ local <= end
    ELSE local >= start \/ local <= end

\* webhook._in_window
_in_window(local, start, end) ==
    IF start = NULL \/ end = NULL THEN TRUE
    ELSE IF start = end THEN TRUE
    ELSE IF start < end THEN start <= local /\ local < end
    ELSE local >= start \/ local < end

\* reminders._within_hours.  The seconds it keeps in `local` cannot change a
\* comparison with work_from / work_to, which are whole minutes.
_within_hours(now_utc, start, end, tz) ==
    IF start = NULL \/ end = NULL THEN TRUE
    ELSE LET local == LocalMinute(now_utc, tz)
         IN  IF start <= end THEN start <= local /\ local < end
             ELSE local >= start \/ local < end

-----------------------------------------------------------------------------
(* Link policies *)

\* the row ensure_link inserts
DefaultLink == [muted |-> FALSE, work_from |-> NULL, work_to |-> NULL, tz |-> "null",
                daily_digest_time |-> NULL]
MutedLink   == [DefaultLink EXCEPT !.muted = TRUE]
\* after /hours 00:01-00:03 and /digest 00:01
DayLink     == [DefaultLink EXCEPT !.work_from = 1, !.work_to = 3,
                                   !.daily_digest_time = 1]
\* after /hours 00:03-00:01 Europe/Moscow and /digest 00:02
NightLink   == [muted |-> FALSE, work_from |-> 3, work_to |-> 1, tz |-> "Europe/Moscow",
                daily_digest_time |-> 2]
\* after /mute on, /hours 00:03-00:01 Europe/Moscow and /digest 00:02
MutedNightLink == [MutedLink EXCEPT !.work_from = 3, !.work_to = 1,
                                    !.tz = "Europe/Moscow", !.daily_digest_time = 2]

\* The link tables the runs start from: account 2 alone is linked, to chat 1
\* with the default policy, or account 1 alone is linked, to both chats with
\* one of these pairs of policies.
InitLinks ==
    { (<<2, 1>> :> DefaultLink) }
    \cup { (<<1, 1>> :> p[1]) @@ (<<1, 2>> :> p[2]) :
             p \in { <<DefaultLink, DayLink>>, <<MutedNightLink, NightLink>> } }

\* webhook._broadcast_to_working_chats: the SELECT (muted = FALSE) and the
\* _in_window test at the handler's current time
BroadcastTargets(lk, account, now_utc) ==
    { d \in Dests :
        /\ <<account, d>> \in DOMAIN lk
        /\ lk[<<account, d>>].muted = FALSE
        /\ _in_window(LocalMinute(now_utc, lk[<<account, d>>].tz),
                      lk[<<account, d>>].work_from, lk[<<account, d>>].work_to) }

\* a fan-out that does not look at the working hours
TickTargetsAnyHour(lk, account, now_utc) ==
    { d \in Dests : <<account, d>> \in DOMAIN lk /\ ~ lk[<<account, d>>].muted }

\* reminders._notify_linked_chats_in_hours over _iter_links: not muted and
\* _within_hours at the tick's instant
TickTargets(lk, account, now_utc) ==
    { d \in Dests :
        /\ <<account, d>> \in DOMAIN lk
        /\ ~ lk[<<account, d>>].muted
        /\ _within_hours(now_utc, lk[<<account, d>>].work_from,
                         lk[<<account, d>>].work_to, lk[<<account, d>>].tz) }

\* telegram.send_telegram_to raises when a send fails and neither fan-out loop
\* catches it: the loop stops at the first failing chat.  The chats reached are
\* all the targets, or a proper subset when a send raised; the rows come in no
\* particular order.
FanOutReached(targets) == SUBSET targets

FanOutRaised(targets, reached) == reached # targets

\* reminders._notify_linked_chats_in_hours: `return sent`, one per send that
\* returned; NULL when a send raised and the call returns nothing
_notify_linked_chats_in_hours(targets, reached) ==
    IF FanOutRaised(targets, reached) THEN NULL ELSE Cardinality(reached)

\* ZoneInfo(name).utcoffset(None) is an offset for a zone without transitions
\* (UTC) and None for the others: a time carrying UTC is aware, a time
\* carrying Europe/Moscow compares as a naive one
FixedOffsetZone(tzname) == tzname = "UTC"

\* morning_digest_tick: local == l["daily_digest_time"], where local is
\* now_utc.astimezone(tz).timetz() cut to the minute, which keeps its tzinfo,
\* and the column holds the naive time /digest stored.  An aware time and a
\* naive time are never equal.
DigestTimeMatches(now_utc, tz, digest_time) ==
    LET tzname == IF tz = "null" THEN "UTC" ELSE tz
    IN  IF FixedOffsetZone(tzname) THEN FALSE
        ELSE LocalMinute(now_utc, tz) = digest_time

\* a digest that goes to the muted chats too
DigestTargetsMuted(lk, rems, now_utc) ==
    { p \in DOMAIN lk :
        /\ lk[p].daily_digest_time # NULL
        /\ DigestTimeMatches(now_utc, lk[p].tz, lk[p].daily_digest_time)
        /\ \E c \in DOMAIN rems : c[1] = p[1] }

\* a digest also for the accounts without reminders
DigestTargetsAnyAccount(lk, rems, now_utc) ==
    { p \in DOMAIN lk :
        /\ lk[p].daily_digest_time # NULL
        /\ ~ lk[p].muted
        /\ DigestTimeMatches(now_utc, lk[p].tz, lk[p].daily_digest_time) }

\* morning_digest_tick and _send_digest_for_link: the links <<account, tg
\* chat>> with a digest time, not muted, whose local minute is the digest
\* time and whose account has reminders
DigestTargets(lk, rems, now_utc) ==
    { p \in DOMAIN lk :
        /\ lk[p].daily_digest_time # NULL
        /\ ~ lk[p].muted
        /\ DigestTimeMatches(now_utc, lk[p].tz, lk[p].daily_digest_time)
        /\ \E c \in DOMAIN rems : c[1] = p[1] }

\* _send_digest_for_link: SELECT ... FROM notify.reminders WHERE account_id
\* ORDER BY first_ts, as the sequence of the keys of the rows
RECURSIVE OrderByFirstTs(_, _)
OrderByFirstTs(rems, keys) ==
    IF keys = {} THEN << >>
    ELSE LET k == CHOOSE x \in keys :
                      \A y \in keys : rems[x].first_ts <= rems[y].first_ts
         IN  <<k>> \o OrderByFirstTs(rems, keys \ {k})

\* _send_digest_for_link: the lines of the message after its title, one per
\* row: the conversation and the minutes since first_ts
DigestLines(rems, account, now_utc) ==
    LET rows == OrderByFirstTs(rems, { c \in DOMAIN rems : c[1] = account })
    IN  [i \in 1 .. Len(rows) |->
            [chat |-> rows[i][2], minutes |-> now_utc - rems[rows[i]].first_ts]]

-----------------------------------------------------------------------------
(* The reminders table *)

\* webhook._add_reminder: INSERT ... first_ts = now() ON CONFLICT DO UPDATE
\* SET avito_chat_title only
_add_reminder(rems, c, now) ==
    IF c \in DOMAIN rems THEN rems
    ELSE (c :> [first_ts |-> now, last_reminder |-> NULL]) @@ rems

\* a DELETE by avito_chat_id alone
RemoveChatReminders(rems, c) ==
    [x \in { y \in DOMAIN rems : y[2] # c[2] } |-> rems[x]]

\* a DELETE that spares the rows already re-notified
RemoveOnlyPending(rems, c) ==
    [x \in { y \in DOMAIN rems : y # c \/ rems[y].last_reminder # NULL } |-> rems[x]]

\* webhook._remove_reminder: DELETE ... WHERE account_id AND avito_chat_id
_remove_reminder(rems, c) ==
    [x \in DOMAIN rems \ {c} |-> rems[x]]

\* an UPDATE that clears the mark of a row already marked
ToggleLastReminder(rems, c, now) ==
    [x \in DOMAIN rems |->
        IF x = c
        THEN [rems[x] EXCEPT !.last_reminder =
                  IF rems[x].last_reminder = NULL THEN now ELSE NULL]
        ELSE rems[x]]

\* an INSERT ... ON CONFLICT DO UPDATE SET last_reminder = now
UpsertLastReminder(rems, c, now) ==
    [x \in DOMAIN rems \cup {c} |->
        IF x = c
        THEN [first_ts |-> IF c \in DOMAIN rems THEN rems[c].first_ts ELSE now,
              last_reminder |-> now]
        ELSE rems[x]]

\* remind_loop: UPDATE reminders SET last_reminder = now WHERE ...
SetLastReminder(rems, c, now) ==
    [x \in DOMAIN rems |->
        IF x = c THEN [rems[x] EXCEPT !.last_reminder = now] ELSE rems[x]]

\* a DELETE that spares the rows never re-notified
DeleteOnlyNotified(rems, c) ==
    [x \in { y \in DOMAIN rems : y # c \/ rems[y].last_reminder = NULL } |-> rems[x]]

\* remind_loop: DELETE FROM reminders WHERE ... (status seller)
TickDeleteReminder(rems, c) ==
    [x \in DOMAIN rems \ {c} |-> rems[x]]

\* the chats a re-notification reached, kept while the reminder is open
MarkRenotified(seen, rems, c, reached, now) ==
    IF c \in DOMAIN rems
    THEN [k \in DOMAIN seen \cup { <<c[1], c[2], d>> : d \in reached } |->
             IF k[1] = c[1] /\ k[2] = c[2] /\ k[3] \in reached THEN now ELSE seen[k]]
    ELSE seen

ForgetRenotified(seen, c) ==
    [k \in { x \in DOMAIN seen : x[1] # c[1] \/ x[2] # c[2] } |-> seen[k]]

\* the re-notifications less than one interval old at `now`
RecentlyRenotified(seen, now) ==
    [k \in { x \in DOMAIN seen : now - seen[x] < REMIND_AFTER_MIN } |-> seen[k]]

\* a WHERE that holds of every row
AlwaysDue(r, now) == TRUE

\* remind_loop: the WHERE of sql_due
IsDue(r, now) ==
    r.last_reminder = NULL \/ now - r.last_reminder >= REMIND_AFTER_MIN

\* remind_loop: the rows of sql_due (reminders JOIN accounts); of their
\* columns only the key decides what the loop does
DueRows(rems, accs, now) ==
    { [acct |-> c[1], chat |-> c[2]] :
        c \in { x \in DOMAIN rems : x[1] \in accs /\ IsDue(rems[x], now) } }

\* webhook._is_seller_reply
_is_seller_reply(ev) == ev.author = ev.seller

-----------------------------------------------------------------------------
(* The conversation-state query *)

\* What the call can meet: no token, a network error, a non-200 answer, a body
\* that is no JSON, no last_message, a last_message without a direction, or a
\* last_message with Avito's direction.
RespKinds == {"token_error", "net_error", "http_error", "bad_json",
              "no_last", "no_direction", "ok"}

\* Avito's side of a conversation is not the program's state: webhooks come
\* late or not at all, so the direction of the last message is an input
Directions == {"in", "out"}

\* reminders._last_message_status, given what the call met and the direction
\* of the last message; "raise" is an exception leaving it
_last_message_status(kind, dir) ==
    CASE kind = "token_error"  -> "raise"
      [] kind = "net_error"    -> "unknown"
      [] kind = "http_error"   -> "unknown"
      [] kind = "bad_json"     -> "raise"
      [] kind = "no_last"      -> "unknown"
      [] kind = "no_direction" -> "seller"
      [] OTHER                 -> IF dir = "in" THEN "buyer" ELSE "seller"

\* telegram.send_telegram reads config.TELEGRAM_ADMIN_CHAT_ID, which config.py
\* does not define (it defines TELEGRAM_ADMIN_USER_ID)
AdminChatIdDefined == FALSE

\* telegram.send_telegram: TRUE when the notice went out, FALSE when it raised
SendTelegramOk == IF AdminChatIdDefined THEN BOOLEAN ELSE {FALSE}

-----------------------------------------------------------------------------
(* The scheduler *)

\* the ids of the jobs install adds
Jobs == {"remind_loop", "morning_digest"}

\* trigger = IntervalTrigger(minutes = ...)
Interval(job) == IF job = "remind_loop" THEN REMIND_AFTER_MIN ELSE 1

\* a job that may run twice at once
TwoInstances(job) == 2

\* max_instances = 1, for both jobs
max_instances(job) == 1

\* _start_scheduler: the scheduler starts at minute 0 and add_job sets the
\* first run of a job one interval later; no run is in flight
StartedScheduler ==
    [next_run |-> [j \in Jobs |-> Interval(j)], instances |-> [j \in Jobs |-> 0]]

-----------------------------------------------------------------------------
(* auth: the token file and its lock *)

\* the coroutines that call get_valid_access_token: _last_message_status in
\* a tick, _fetch_chat_title in a webhook request
Callers == {"remind_loop", "avito_webhook"}

\* a record of the token file: absent, not expired, expired with a
\* refresh_token, expired without one
RecKinds == {"none", "valid", "expired", "no_refresh"}

\* _TOK_LOCK when no coroutine holds it
Free == "free"

\* AVITO_OWNER_USER_ID = int(os.getenv("AVITO_OWNER_USER_ID", "0") or "0")
NoOwner == 0

\* fn is the function the coroutine is in, "none" outside a call; pc is
\* "acquire" while it awaits _TOK_LOCK and "body" inside `async with`;
\* result is how its last call ended
IdleCall == [pc |-> "idle", fn |-> "none", uid |-> 0, result |-> "none"]

\* store: the records of the token file under the key of an account; cred:
\* its record under CLIENT_CRED_KEY; owner: config.AVITO_OWNER_USER_ID, 0
\* when it is not set
NoTokens == [lock |-> Free,
             store |-> [k \in Accounts |-> "none"],
             cred |-> "none",
             owner |-> NoOwner,
             call |-> [p \in Callers |-> IdleCall]]

\* `if config.AVITO_OWNER_USER_ID and avito_user_id == config.AVITO_OWNER_USER_ID`
IsOwner(tk, uid) == tk.owner # NoOwner /\ uid = tk.owner

\* How the body of get_valid_access_token ends for the record of uid and
\* the answer to the refresh request: it returns a token, raises, or awaits
\* get_app_access_token (both inside `async with _TOK_LOCK`)
get_valid_access_token(tk, uid, http) ==
    CASE tk.store[uid] = "valid"   -> "token"
      [] tk.store[uid] = "expired" -> IF http = "ok" THEN "token" ELSE "raised"
      [] OTHER -> IF IsOwner(tk, uid) THEN "call_app" ELSE "raised"

\* How the body of get_app_access_token ends for the client_credentials
\* record and the answer to the token request
get_app_access_token(tk, http) ==
    IF tk.cred = "valid" \/ http = "ok" THEN "token" ELSE "raised"

\* the token file after the body: a refresh that succeeded and a
\* client_credentials token that was fetched are written
StoreAfter(tk, fn, uid, http) ==
    IF fn = "valid" /\ tk.store[uid] = "expired" /\ http = "ok"
    THEN [tk.store EXCEPT ![uid] = "valid"] ELSE tk.store

CredAfter(tk, fn, http) ==
    IF fn = "app" /\ http = "ok" THEN "valid" ELSE tk.cred

-----------------------------------------------------------------------------
(* State *)

NoRow == [acct |-> 0, chat |-> 0]

IdleTick == [pc |-> "idle", now |-> 0, rows |-> {}, cur |-> NoRow, status |-> "none"]

NoReminder == [first_ts |-> NULL, last_reminder |-> NULL]

\* no conversation-state query in the step
NoQuery == [kind |-> "none", dir |-> "none"]

\* what a query met; only a last_message that has a direction has one
QueryOf(kind, dir) == [kind |-> kind, dir |-> IF kind = "ok" THEN dir ELSE "none"]

\* the row of a conversation, NoReminder when it has none
RowOf(rems, c) == IF c \in DOMAIN rems THEN rems[c] ELSE NoReminder

\* The record of a step: the handler (op) and conversation, the chats its
\* fan-out selected (targets) and reached, why it raised (cause), the rows a
\* tick left undone (left), the conversation's row before the step (prev),
\* the step's `now` (at), the lines of each digest sent (lines), whether
\* the signature of the webhook request verifies (verified) and what the
\* conversation-state query of a tick met (query).
NoOut == [op |-> "none", acct |-> 0, chat |-> 0, targets |-> {}, reached |-> {},
          cause |-> "none", left |-> {}, prev |-> NoReminder, at |-> NULL,
          lines |-> << >>, verified |-> TRUE, query |-> NoQuery]

Stamp(op, c, rems, now) ==
    [NoOut EXCEPT !.op = op, !.acct = c[1], !.chat = c[2],
                  !.prev = RowOf(rems, c), !.at = now]

Init ==
    /\ clock = 0
    /\ accounts = Accounts
    /\ links \in InitLinks
    /\ chats = Dests
    /\ scheduler = StartedScheduler
    /\ tokens = NoTokens
    /\ silenced = {}
    /\ reminders = << >>
    /\ tick = IdleTick
    /\ renotified = << >>
    /\ out = NoOut

-----------------------------------------------------------------------------
(* Environment *)

\* a minute passes
Advance ==
    /\ clock < MaxTime
    /\ clock' = clock + 1
    /\ renotified' = RecentlyRenotified(renotified, clock + 1)
    /\ out' = NoOut
    /\ UNCHANGED <<silenced, tokens, accounts, links, chats, scheduler, reminders, tick>>

-----------------------------------------------------------------------------
(* avito_webhook *)

\* the author is the seller or a customer; a message another account writes
\* into the seller's chat is a customer's message like any other.  `signed`:
\* the X-Hook-Signature header is the HMAC of the body under the hook secret.
Events == { e \in [seller : Accounts, author : UserIds, chat : Chats,
                    signed : BOOLEAN] :
              e.author \in {e.seller} \cup Customers }

\* the events Avito sends
SignedEvents == { e \in Events : e.signed }

\* webhook._check_signature: TRUE when it returns, FALSE when it raises 401.
\* Its call of _verify_signature is commented out: it returns whatever the
\* signature.
_check_signature(signed) == TRUE

\* the request ends with 401 before the event is parsed
Rejected(ev) ==
    /\ out' = [NoOut EXCEPT !.op = "rejected", !.acct = ev.seller, !.chat = ev.chat,
                            !.at = clock, !.verified = ev.signed]
    /\ UNCHANGED <<silenced, tokens, clock, accounts, links, chats, scheduler, reminders, tick,
                   renotified>>

\* a message of the seller: _check_signature, _ensure_account,
\* _remove_reminder, return
WebhookSeller(ev) ==
    LET c == <<ev.seller, ev.chat>> IN
    /\ _is_seller_reply(ev)
    /\ IF ~ _check_signature(ev.signed)
       THEN Rejected(ev)
       ELSE /\ accounts' = accounts \cup {ev.seller}
            /\ reminders' = _remove_reminder(reminders, c)
            /\ renotified' = ForgetRenotified(renotified, c)
            /\ out' = [Stamp("seller", c, reminders, clock)
                          EXCEPT !.verified = ev.signed]
            /\ UNCHANGED <<silenced, tokens, clock, links, chats, scheduler, tick>>

\* a message of a customer: _check_signature, _ensure_account,
\* _broadcast_to_working_chats,
\* _fetch_chat_title (which catches its errors), _add_reminder.  A send that
\* raises ends the request before _add_reminder.
WebhookBuyer(ev, reached) ==
    LET c == <<ev.seller, ev.chat>>
        targets == BroadcastTargets(links, ev.seller, clock)
        raised == FanOutRaised(targets, reached)
    IN
    /\ ~ _is_seller_reply(ev)
    /\ IF ~ _check_signature(ev.signed)
       THEN reached = {} /\ Rejected(ev)
       ELSE /\ reached \in FanOutReached(targets)
            /\ accounts' = accounts \cup {ev.seller}
            /\ reminders' = IF raised THEN reminders
                            ELSE _add_reminder(reminders, c, clock)
            /\ out' = [Stamp(IF raised THEN "buyer_raised" ELSE "buyer_done",
                              c, reminders, clock)
                          EXCEPT !.targets = targets, !.reached = reached,
                                 !.cause = IF raised THEN "send" ELSE "none",
                                 !.verified = ev.signed]
            /\ UNCHANGED <<silenced, tokens, clock, links, chats, scheduler, tick, renotified>>

-----------------------------------------------------------------------------
(* remind_loop *)

\* now = datetime.now(); rows = fetch(sql_due)
TickStart ==
    /\ tick.pc = "idle"
    /\ tick' = [IdleTick EXCEPT !.pc = "fetch", !.now = clock,
                                !.rows = DueRows(reminders, accounts, clock)]
    /\ out' = NoOut
    /\ UNCHANGED <<silenced, tokens, clock, accounts, links, chats, scheduler, reminders,
                   renotified>>

\* the for loop is over
TickEnd ==
    /\ tick.pc = "fetch"
    /\ tick.rows = {}
    /\ tick' = IdleTick
    /\ out' = [NoOut EXCEPT !.op = "tick_done"]
    /\ UNCHANGED <<silenced, tokens, clock, accounts, links, chats, scheduler, reminders,
                   renotified>>

\* status = await _last_message_status(...) for the next row
TickFetch(row, kind, dir) ==
    LET status == _last_message_status(kind, dir) IN
    /\ tick.pc = "fetch"
    /\ row \in tick.rows
    /\ IF status = "raise"
       THEN /\ tick' = IdleTick
            /\ out' = [Stamp("tick_aborted", <<row.acct, row.chat>>, reminders, tick.now)
                          EXCEPT !.cause = IF kind = "token_error"
                                           THEN "token" ELSE "decode",
                                 !.left = tick.rows \ {row},
                                 !.query = QueryOf(kind, dir)]
       ELSE /\ tick' = [tick EXCEPT !.pc = "act", !.rows = tick.rows \ {row},
                                    !.cur = row, !.status = status]
            /\ out' = [Stamp("tick_query", <<row.acct, row.chat>>, reminders, tick.now)
                          EXCEPT !.query = QueryOf(kind, dir)]
    /\ UNCHANGED <<silenced, tokens, clock, accounts, links, chats, scheduler, reminders,
                   renotified>>

\* an UPDATE that does not look at the count
AlwaysTruthy(n) == TRUE

\* remind_loop: `if sent:`
Truthy(n) == n # 0

\* status buyer: _notify_linked_chats_in_hours, then the UPDATE `if sent`
TickNotify(reached, dbOk) ==
    LET c == <<tick.cur.acct, tick.cur.chat>>
        targets == TickTargets(links, tick.cur.acct, tick.now)
        raised == FanOutRaised(targets, reached)
        sent == _notify_linked_chats_in_hours(targets, reached)
    IN
    /\ tick.pc = "act"
    /\ tick.status = "buyer"
    /\ reached \in FanOutReached(targets)
    /\ renotified' = MarkRenotified(renotified, reminders, c, reached, clock)
    /\ dbOk \in (IF ~ raised /\ Truthy(sent) THEN BOOLEAN ELSE {TRUE})
    /\ IF raised \/ ~ dbOk
       THEN /\ tick' = IdleTick
            /\ out' = [Stamp("tick_aborted", c, reminders, tick.now)
                          EXCEPT !.targets = targets, !.reached = reached,
                                 !.cause = IF raised THEN "send" ELSE "store",
                                 !.left = tick.rows]
            /\ UNCHANGED reminders
       ELSE /\ tick' = [tick EXCEPT !.pc = "fetch", !.cur = NoRow, !.status = "none"]
            /\ out' = [Stamp("tick_notified", c, reminders, tick.now)
                          EXCEPT !.targets = targets, !.reached = reached]
            /\ reminders' = IF Truthy(sent)
                            THEN SetLastReminder(reminders, c, tick.now)
                            ELSE reminders
    /\ UNCHANGED <<silenced, tokens, clock, accounts, links, chats, scheduler>>

\* status unknown: telegram.send_telegram, then the UPDATE
TickFallback(ok, dbOk) ==
    LET c == <<tick.cur.acct, tick.cur.chat>> IN
    /\ tick.pc = "act"
    /\ tick.status = "unknown"
    /\ ok \in SendTelegramOk
    /\ dbOk \in (IF ok THEN BOOLEAN ELSE {TRUE})
    /\ IF ~ ok \/ ~ dbOk
       THEN /\ tick' = IdleTick
            /\ out' = [Stamp("tick_aborted", c, reminders, tick.now)
                          EXCEPT !.cause = IF ok THEN "store" ELSE "notice",
                                 !.left = tick.rows]
            /\ UNCHANGED reminders
       ELSE /\ tick' = [tick EXCEPT !.pc = "fetch", !.cur = NoRow, !.status = "none"]
            /\ out' = Stamp("tick_fallback", c, reminders, tick.now)
            /\ reminders' = SetLastReminder(reminders, c, tick.now)
    /\ UNCHANGED <<silenced, tokens, clock, accounts, links, chats, scheduler, renotified>>

\* status seller: the DELETE
TickDelete(dbOk) ==
    LET c == <<tick.cur.acct, tick.cur.chat>> IN
    /\ tick.pc = "act"
    /\ tick.status = "seller"
    /\ IF ~ dbOk
       THEN /\ tick' = IdleTick
            /\ out' = [Stamp("tick_aborted", c, reminders, tick.now)
                          EXCEPT !.cause = "store", !.left = tick.rows]
            /\ UNCHANGED reminders
       ELSE /\ tick' = [tick EXCEPT !.pc = "fetch", !.cur = NoRow, !.status = "none"]
            /\ out' = Stamp("tick_deleted", c, reminders, tick.now)
            /\ reminders' = TickDeleteReminder(reminders, c)
    /\ renotified' = IF dbOk THEN ForgetRenotified(renotified, c) ELSE renotified
    /\ UNCHANGED <<silenced, tokens, clock, accounts, links, chats, scheduler>>

-----------------------------------------------------------------------------
(* morning_digest_tick *)

\* One run: the links are read once, every target gets one message; a send
\* that raises ends the run, so `reached` is all the targets or fewer.
MorningDigest(reached) ==
    LET targets == DigestTargets(links, reminders, clock)
        raised == FanOutRaised(targets, reached)
    IN
    /\ reached \in FanOutReached(targets)
    /\ out' = [NoOut EXCEPT !.op = IF raised THEN "digest_aborted" ELSE "digest",
                            !.targets = targets, !.reached = reached,
                            !.cause = IF raised THEN "send" ELSE "none",
                            !.at = clock,
                            !.lines = [p \in reached |->
                                          DigestLines(reminders, p[1], clock)]]
    /\ UNCHANGED <<silenced, tokens, clock, accounts, links, chats, scheduler, reminders, tick,
                   renotified>>

-----------------------------------------------------------------------------
(* The process stops and starts again *)

\* reminders kept in the memory of the process
MemoryReminders(rems) == << >>

\* What the new process finds in notify.reminders: the handlers and the tick
\* keep no reminder outside the table, and install_pool opens connections to
\* the database without writing to it.
StoredReminders(rems) == rems

\* The coroutines of the old process are gone, a tick in flight with them;
\* the new process starts a scheduler with no run in flight.
Restart ==
    /\ tick' = IdleTick
    /\ reminders' = StoredReminders(reminders)
    /\ out' = [NoOut EXCEPT !.op = "restart", !.at = clock]
    /\ UNCHANGED <<silenced, tokens, clock, accounts, links, chats, scheduler, renotified>>

-----------------------------------------------------------------------------

Next ==
    \/ Advance
    \/ \E ev \in SignedEvents : WebhookSeller(ev)
    \/ \E ev \in SignedEvents : \E reached \in SUBSET Dests :
          WebhookBuyer(ev, reached)
    \/ TickStart
    \/ TickEnd
    \/ \E row \in tick.rows : \E kind \in RespKinds : \E dir \in Directions :
          TickFetch(row, kind, dir)
    \/ \E reached \in SUBSET Dests : \E dbOk \in BOOLEAN : TickNotify(reached, dbOk)
    \/ \E ok \in BOOLEAN : \E dbOk \in BOOLEAN : TickFallback(ok, dbOk)
    \/ \E dbOk \in BOOLEAN : TickDelete(dbOk)
    \/ \E reached \in SUBSET (Accounts \X Dests) : MorningDigest(reached)
    \/ Restart

Spec == Init /\ [][Next]_vars

-----------------------------------------------------------------------------
(* The scheduler alone: the triggers of the two jobs and the runs they start.
   What a run does is left out here; a run takes any time to finish. *)

\* a minute passes
SchedAdvance ==
    /\ clock < MaxSchedTime
    /\ clock' = clock + 1
    /\ out' = [op |-> "none", job |-> "none", at |-> clock + 1]
    /\ UNCHANGED <<silenced, tokens, accounts, links, chats, scheduler, reminders, tick,
                   renotified>>

\* The trigger of a job fires: the scheduler wakes up with the job due.
\* coalesce = True: of the run times that have passed only the last counts.
\* The run is dropped when max_instances runs of the job are in flight, and
\* when it comes later than misfire_grace_time (`late`); otherwise it starts.
\* The next run is one interval after the run time.
Fire(job, late) ==
    LET due == scheduler.next_run[job]
        run_time == due + ((clock - due) \div Interval(job)) * Interval(job)
        busy == scheduler.instances[job] >= max_instances(job)
    IN
    /\ clock >= due
    /\ scheduler' =
          [next_run |-> [scheduler.next_run EXCEPT ![job] = run_time + Interval(job)],
           instances |-> IF busy \/ late THEN scheduler.instances
                         ELSE [scheduler.instances EXCEPT ![job] = @ + 1]]
    /\ out' = [op |-> IF busy THEN "job_skipped"
                      ELSE IF late THEN "job_missed" ELSE "job_started",
               job |-> job, at |-> clock]
    /\ UNCHANGED <<silenced, tokens, clock, accounts, links, chats, reminders, tick, renotified>>

\* a run of the job returns or raises
Finish(job) ==
    /\ scheduler.instances[job] > 0
    /\ scheduler' = [scheduler EXCEPT !.instances[job] = @ - 1]
    /\ out' = [op |-> "job_finished", job |-> job, at |-> clock]
    /\ UNCHANGED <<silenced, tokens, clock, accounts, links, chats, reminders, tick, renotified>>

SchedNext ==
    \/ SchedAdvance
    \/ \E job \in Jobs : \E late \in BOOLEAN : Fire(job, late)
    \/ \E job \in Jobs : Finish(job)

SchedSpec == Init /\ [][SchedNext]_vars

-----------------------------------------------------------------------------
(* The bot's commands (tg_bot).  A handler is one step.  The display names
   of the accounts are not part of the state: no handler decides by them.
   The commands that make and remove accounts, chats, links and reminders
   run from AdminInit, the commands that set the policy of the links from
   PolicyInit; GroupSpec runs the commands of a group together. *)

\* common.upsert_chat_and_get_id: INSERT ... ON CONFLICT (tg_chat_id) DO UPDATE
upsert_chat_and_get_id(chs, d) == chs \cup {d}

\* common.account_id_by_avito: the id of the account, None without a row
account_id_by_avito(accs, a) == IF a \in accs THEN a ELSE NULL

\* an INSERT ... ON CONFLICT DO UPDATE that resets the policy
ResetLink(lk, a, d) ==
    [p \in DOMAIN lk \cup {<<a, d>>} |-> IF p = <<a, d>> THEN DefaultLink ELSE lk[p]]

\* common.ensure_link: INSERT ... muted FALSE ON CONFLICT DO NOTHING
ensure_link(lk, a, d) ==
    IF <<a, d>> \in DOMAIN lk THEN lk ELSE (<<a, d>> :> DefaultLink) @@ lk

\* common.update_links_for_chat: UPDATE account_chat_links SET the fields of
\* `upd` WHERE chat_id
update_links_for_chat(lk, d, upd) ==
    [p \in DOMAIN lk |->
        IF p[2] = d
        THEN [f \in DOMAIN lk[p] |-> IF f \in DOMAIN upd THEN upd[f] ELSE lk[p][f]]
        ELSE lk[p]]

\* cmd_unlink: DELETE FROM account_chat_links WHERE account_id AND chat_id
DeleteLink(lk, a, d) == [p \in DOMAIN lk \ {<<a, d>>} |-> lk[p]]

\* a bot removal that leaves the links of the chat
KeepChatLinks(lk, d) == lk

\* on_my_chat_member: DELETE FROM account_chat_links WHERE chat_id
DeleteChatLinks(lk, d) == [p \in { x \in DOMAIN lk : x[2] # d } |-> lk[p]]

\* a deletion of the account that leaves its links
KeepAccountLinks(lk, a) == lk

\* cmd_delete_account: DELETE FROM account_chat_links WHERE account_id
DeleteAccountLinks(lk, a) == [p \in { x \in DOMAIN lk : x[1] # a } |-> lk[p]]

\* cmd_delete_account: DELETE FROM reminders WHERE account_id
DeleteAccountReminders(rems, a) ==
    [c \in { x \in DOMAIN rems : x[1] # a } |-> rems[c]]

\* a DELETE without the join: the rows of every account
ClearEveryAccount(rems, accs, a) == << >>

\* cmd_clear_reminders: DELETE FROM reminders r USING accounts a WHERE
\* a.id = r.account_id AND a.avito_user_id = $1
ClearReminders(rems, accs, a) ==
    [c \in { x \in DOMAIN rems : ~ (x[1] = a /\ x[1] \in accs) } |-> rems[c]]

\* cmd_clear_reminders: the count at the end of the status "DELETE n"
DeletedCount(before, after) ==
    Cardinality(DOMAIN before) - Cardinality(DOMAIN after)

\* The argument of /hours as the regular expression of parse_hours sees it:
\* whether it matches, the two times in minutes of the day as written, and
\* the zone, "null" without one.  A time at or after MinutesPerDay stands for
\* an hour of 24 or more or a minute of 60 or more.
HoursArgs ==
    [wellformed : BOOLEAN, from : {1, MinutesPerDay}, to : {3},
     tz : {"Europe/Moscow", "Mars/Phobos"}]

\* common.parse_hours: ValueError without a match or with a time out of
\* range; the zone is returned as written
parse_hours(a) ==
    IF ~ a.wellformed THEN [ok |-> FALSE]
    ELSE IF ~ (a.from \in DayMinutes /\ a.to \in DayMinutes) THEN [ok |-> FALSE]
    ELSE [ok |-> TRUE, start |-> a.from, end |-> a.to, tz |-> a.tz]

\* The argument of /digest: "off", a text that the regular expression of
\* cmd_digest matches, with its time, or any other text
DigestArgs ==
    { [kind |-> "off", at |-> NULL], [kind |-> "text", at |-> NULL],
      [kind |-> "time", at |-> 2], [kind |-> "time", at |-> MinutesPerDay] }

\* the arguments of the commands that name an account: the ids of the
\* accounts, and NULL for a text that is no number
AccountArgs == Accounts \cup {NULL}

NoArg == [kind |-> "none"]

\* the record of a command: the handler, whether its sender is an
\* administrator (of the group for a group command, the bot's for a private
\* one; TRUE for an event no user sends), the account and the chat it names,
\* its argument, the kind of its reply and the count it reports
AdminOut(op, admin, a, d, arg, reply, count) ==
    [op |-> op, admin |-> admin, acct |-> a, dest |-> d, arg |-> arg,
     reply |-> reply, count |-> count]

\* the reminders the commands meet: two conversations of account 1, one of
\* account 2
AdminReminders ==
    [c \in {<<1, 1>>, <<1, 2>>, <<2, 1>>} |->
        [first_ts |-> 0, last_reminder |-> IF c = <<1, 2>> THEN 0 ELSE NULL]]

\* both accounts have passed OAuth; the bot is in no group yet
AdminInit ==
    /\ clock = 0
    /\ accounts = Accounts
    /\ links = << >>
    /\ chats = {}
    /\ scheduler = StartedScheduler
    /\ tokens = NoTokens
    /\ silenced = {}
    /\ reminders = AdminReminders
    /\ tick = IdleTick
    /\ renotified = << >>
    /\ out = AdminOut("none", TRUE, NULL, NULL, NoArg, "none", 0)

\* public.avito_callback: the upsert of the account after OAuth
avito_callback(a) ==
    /\ accounts' = accounts \cup {a}
    /\ out' = AdminOut("avito_callback", TRUE, a, NULL, NoArg, "ok", 0)
    /\ UNCHANGED <<silenced, tokens, clock, links, chats, scheduler, reminders, tick, renotified>>

\* handlers_group.cmd_link, sent in group d by a chat admin or not
cmd_link(d, a, admin) ==
    LET known == a # NULL /\ account_id_by_avito(accounts, a) # NULL IN
    /\ chats' = IF admin /\ a # NULL THEN upsert_chat_and_get_id(chats, d) ELSE chats
    /\ links' = IF admin /\ known THEN ensure_link(links, a, d) ELSE links
    /\ out' = AdminOut("link", admin, a, d, NoArg,
                       IF ~ admin THEN "denied"
                       ELSE IF a = NULL THEN "format"
                       ELSE IF ~ known THEN "error" ELSE "ok", 0)
    /\ UNCHANGED <<silenced, tokens, clock, accounts, scheduler, reminders, tick, renotified>>

\* handlers_group.cmd_unlink
cmd_unlink(d, a, admin) ==
    LET known == a # NULL /\ account_id_by_avito(accounts, a) # NULL IN
    /\ chats' = IF admin /\ known THEN upsert_chat_and_get_id(chats, d) ELSE chats
    /\ links' = IF admin /\ known THEN DeleteLink(links, a, d) ELSE links
    /\ out' = AdminOut("unlink", admin, a, d, NoArg,
                       IF ~ admin THEN "denied"
                       ELSE IF a = NULL THEN "format"
                       ELSE IF ~ known THEN "error" ELSE "ok", 0)
    /\ UNCHANGED <<silenced, tokens, clock, accounts, scheduler, reminders, tick, renotified>>

\* handlers_admin.cmd_delete_account, sent in private by the admin or not:
\* the three DELETEs are one transaction.  count: the reminders and links
\* deleted.
cmd_delete_account(a, admin) ==
    LET acc_id == IF a = NULL THEN NULL ELSE account_id_by_avito(accounts, a)
        go == admin /\ acc_id # NULL
        rems == IF go THEN DeleteAccountReminders(reminders, acc_id) ELSE reminders
        lk == IF go THEN DeleteAccountLinks(links, acc_id) ELSE links
    IN
    /\ reminders' = rems
    /\ links' = lk
    /\ accounts' = IF go THEN accounts \ {acc_id} ELSE accounts
    /\ out' = AdminOut("delete_account", admin, a, NULL, NoArg,
                       IF ~ admin THEN "none"
                       ELSE IF a = NULL THEN "format"
                       ELSE IF acc_id = NULL THEN "error" ELSE "ok",
                       DeletedCount(reminders, rems) + DeletedCount(links, lk))
    /\ UNCHANGED <<silenced, tokens, clock, chats, scheduler, tick, renotified>>

\* handlers_admin.cmd_set_name: the UPDATE of display_name, whose count of
\* rows the handler does not read
cmd_set_name(a, admin) ==
    /\ out' = AdminOut("set_name", admin, a, NULL, NoArg,
                       IF ~ admin THEN "none"
                       ELSE IF a = NULL THEN "format" ELSE "ok", 0)
    /\ UNCHANGED <<silenced, tokens, clock, accounts, links, chats, scheduler, reminders, tick,
                   renotified>>

\* handlers_admin.cmd_clear_reminders
cmd_clear_reminders(a, admin) ==
    LET go == admin /\ a # NULL
        after == IF go THEN ClearReminders(reminders, accounts, a) ELSE reminders
        deleted == DeletedCount(reminders, after)
    IN
    /\ reminders' = after
    /\ out' = AdminOut("clear_reminders", admin, a, NULL, NoArg,
                       IF ~ admin THEN "none"
                       ELSE IF a = NULL THEN "format"
                       ELSE IF deleted = 0 THEN "not_found" ELSE "ok", deleted)
    /\ UNCHANGED <<silenced, tokens, clock, accounts, links, chats, scheduler, tick, renotified>>

\* handlers_group.cmd_hours
cmd_hours(d, arg, admin) ==
    LET parsed == parse_hours(arg)
        go == admin /\ parsed.ok
    IN
    /\ chats' = IF go THEN upsert_chat_and_get_id(chats, d) ELSE chats
    /\ links' = IF go
                THEN update_links_for_chat(links, d,
                         [work_from |-> parsed.start, work_to |-> parsed.end,
                          tz |-> parsed.tz])
                ELSE links
    /\ out' = AdminOut("hours", admin, NULL, d, arg,
                       IF ~ admin THEN "denied"
                       ELSE IF ~ parsed.ok THEN "error" ELSE "ok", 0)
    /\ UNCHANGED <<silenced, tokens, clock, accounts, scheduler, reminders, tick, renotified>>

\* handlers_group.cmd_digest: the chat is upserted before the argument is
\* looked at
cmd_digest(d, arg, admin) ==
    LET in_range == arg.kind = "time" /\ arg.at \in DayMinutes
        go == admin /\ (arg.kind = "off" \/ in_range)
    IN
    /\ chats' = IF admin THEN upsert_chat_and_get_id(chats, d) ELSE chats
    /\ links' = IF go
                THEN update_links_for_chat(links, d, [daily_digest_time |-> arg.at])
                ELSE links
    /\ out' = AdminOut("digest", admin, NULL, d, arg,
                       IF ~ admin THEN "denied"
                       ELSE IF arg.kind = "text" THEN "format"
                       ELSE IF ~ go THEN "error" ELSE "ok", 0)
    /\ UNCHANGED <<silenced, tokens, clock, accounts, scheduler, reminders, tick, renotified>>

\* the argument of /mute: on, off, or any other text
MuteArgs == { [kind |-> k] : k \in {"on", "off", "text"} }

\* handlers_group.cmd_mute: the handler does not ask who sends the command
cmd_mute(d, arg, admin) ==
    LET go == arg.kind \in {"on", "off"} IN
    /\ chats' = IF go THEN upsert_chat_and_get_id(chats, d) ELSE chats
    /\ links' = IF go
                THEN update_links_for_chat(links, d, [muted |-> arg.kind = "on"])
                ELSE links
    /\ silenced' = IF ~ go THEN silenced
                   ELSE IF arg.kind = "on" THEN silenced \cup {d}
                   ELSE silenced \ {d}
    /\ out' = AdminOut("mute", admin, NULL, d, arg,
                       IF go THEN "ok" ELSE "format", 0)
    /\ UNCHANGED <<tokens, clock, accounts, scheduler, reminders, tick, renotified>>

\* handlers_group.on_my_chat_member: the bot becomes a member of group d
\* (joined), or leaves it or is kicked; the two DELETEs are one transaction.
\* count: the links deleted.
on_my_chat_member(d, joined) ==
    LET after == IF joined THEN links ELSE DeleteChatLinks(links, d) IN
    /\ chats' = IF joined THEN upsert_chat_and_get_id(chats, d)
                ELSE upsert_chat_and_get_id(chats, d) \ {d}
    /\ links' = after
    /\ out' = AdminOut(IF joined THEN "bot_added" ELSE "bot_removed", TRUE,
                       NULL, d, NoArg,
                       IF joined THEN "ok" ELSE "none",
                       Cardinality(DOMAIN links) - Cardinality(DOMAIN after))
    /\ UNCHANGED <<silenced, tokens, clock, accounts, scheduler, reminders, tick, renotified>>

AdminNext ==
    \/ \E a \in Accounts : avito_callback(a)
    \/ \E a \in AccountArgs : \E admin \in BOOLEAN : cmd_delete_account(a, admin)
    \/ \E a \in AccountArgs : \E admin \in BOOLEAN : cmd_set_name(a, admin)
    \/ \E a \in AccountArgs : \E admin \in BOOLEAN : cmd_clear_reminders(a, admin)
    \/ \E d \in Dests : \E a \in AccountArgs : \E admin \in BOOLEAN :
          cmd_link(d, a, admin)
    \/ \E d \in Dests : \E a \in AccountArgs : \E admin \in BOOLEAN :
          cmd_unlink(d, a, admin)
    \/ \E d \in Dests : \E joined \in BOOLEAN : on_my_chat_member(d, joined)

AdminSpec == AdminInit /\ [][AdminNext]_vars

\* the commands that set the policy of the links, in groups linked before:
\* both accounts to chat 1, account 1 to chat 2 as well
PolicyInit ==
    /\ clock = 0
    /\ accounts = Accounts
    /\ links = [p \in {<<1, 1>>, <<2, 1>>, <<1, 2>>} |-> DefaultLink]
    /\ chats = Dests
    /\ scheduler = StartedScheduler
    /\ tokens = NoTokens
    /\ silenced = {}
    /\ reminders = AdminReminders
    /\ tick = IdleTick
    /\ renotified = << >>
    /\ out = AdminOut("none", TRUE, NULL, NULL, NoArg, "none", 0)

PolicyNext ==
    \/ \E d \in Dests : \E arg \in HoursArgs : \E admin \in BOOLEAN :
          cmd_hours(d, arg, admin)
    \/ \E d \in Dests : \E arg \in DigestArgs : \E admin \in BOOLEAN :
          cmd_digest(d, arg, admin)

PolicySpec == PolicyInit /\ [][PolicyNext]_vars

\* the commands of a group, sent by its administrators and by its other
\* members, with arguments that are well formed (the others are PolicySpec's)
GroupHours == { a \in HoursArgs : parse_hours(a).ok /\ a.tz = "Europe/Moscow" }

GroupDigests == { a \in DigestArgs : a.kind = "off" \/ a.at \in DayMinutes }

\* the links the group commands make and remove: both accounts in chat 1,
\* account 1 in chat 2 as well
GroupPairs == {<<1, 1>>, <<2, 1>>, <<1, 2>>}

GroupNext ==
    \/ \E p \in GroupPairs : \E admin \in BOOLEAN : cmd_link(p[2], p[1], admin)
    \/ \E p \in GroupPairs : \E admin \in BOOLEAN : cmd_unlink(p[2], p[1], admin)
    \/ \E d \in Dests : \E arg \in MuteArgs : \E admin \in BOOLEAN :
          cmd_mute(d, arg, admin)
    \/ \E d \in Dests : \E arg \in GroupHours : \E admin \in BOOLEAN :
          cmd_hours(d, arg, admin)
    \/ \E d \in Dests : \E arg \in GroupDigests : \E admin \in BOOLEAN :
          cmd_digest(d, arg, admin)

GroupSpec == AdminInit /\ [][GroupNext]_vars

\* /mute and /link with the immediate notifications of the buyer messages
\* that follow, every send succeeding.  The re-notification and the digest
\* select their chats by the same column muted (TickTargets, DigestTargets).
MuteNext ==
    \/ \E d \in Dests : \E a \in Accounts : \E admin \in BOOLEAN :
          cmd_link(d, a, admin)
    \/ \E d \in Dests : \E arg \in MuteArgs : \E admin \in BOOLEAN :
          cmd_mute(d, arg, admin)
    \/ \E ev \in SignedEvents :
          WebhookBuyer(ev, BroadcastTargets(links, ev.seller, clock))

MuteSpec == AdminInit /\ [][MuteNext]_vars

-----------------------------------------------------------------------------
(* The webhook endpoint alone, open to any sender: requests with and without
   a signature that verifies *)

HookNext ==
    \/ Advance
    \/ \E ev \in Events : WebhookSeller(ev)
    \/ \E ev \in Events : \E reached \in SUBSET Dests : WebhookBuyer(ev, reached)

HookSpec == Init /\ [][HookNext]_vars

-----------------------------------------------------------------------------
(* The two window evaluators, side by side *)

\* one link of account 1 with every pair of bounds and both zones
WindowLinks ==
    { (<<1, 1>> :> [DefaultLink EXCEPT !.work_from = a, !.work_to = b, !.tz = z]) :
        a \in {NULL} \cup DayMinutes, b \in {NULL} \cup DayMinutes,
        z \in {"null", "Europe/Moscow"} }

WinInit ==
    /\ clock = 0
    /\ accounts = Accounts
    /\ links \in WindowLinks
    /\ chats = Dests
    /\ scheduler = StartedScheduler
    /\ tokens = NoTokens
    /\ silenced = {}
    /\ reminders = << >>
    /\ tick = IdleTick
    /\ renotified = << >>
    /\ out = NoOut

\* what _broadcast_to_working_chats and _notify_linked_chats_in_hours compute
\* for the link at this minute
EvalWindows ==
    LET l == links[<<1, 1>>]
        local == LocalMinute(clock, l.tz)
    IN
    /\ out' = [op |-> "windows", local |-> local,
               start |-> l.work_from, end |-> l.work_to,
               in_window |-> _in_window(local, l.work_from, l.work_to),
               within_hours |-> _within_hours(clock, l.work_from, l.work_to, l.tz)]
    /\ UNCHANGED <<silenced, tokens, clock, accounts, links, chats, scheduler, reminders, tick,
                   renotified>>

WinNext == Advance \/ EvalWindows

WinSpec == WinInit /\ [][WinNext]_vars

-----------------------------------------------------------------------------
(* The token file and _TOK_LOCK alone: two coroutines call
   get_valid_access_token for any account, with any token file and with
   AVITO_OWNER_USER_ID unset or set to an account. *)

TokInit ==
    /\ clock = 0
    /\ accounts = Accounts
    /\ links = << >>
    /\ chats = {}
    /\ scheduler = StartedScheduler
    /\ reminders = << >>
    /\ tick = IdleTick
    /\ renotified = << >>
    /\ out = NoOut
    /\ tokens \in { [NoTokens EXCEPT !.store = st, !.cred = cr, !.owner = o] :
                       st \in [Accounts -> RecKinds],
                       cr \in {"none", "valid"},
                       o \in {NoOwner} \cup Accounts }
    /\ silenced = {}

\* a coroutine calls get_valid_access_token(uid) and reaches `async with`
CallToken(p, uid) ==
    /\ tokens.call[p].pc = "idle"
    /\ tokens' = [tokens EXCEPT !.call[p] =
                      [pc |-> "acquire", fn |-> "valid", uid |-> uid,
                       result |-> "none"]]
    /\ UNCHANGED <<silenced, clock, accounts, links, chats, scheduler, reminders,
                   tick, renotified, out>>

\* asyncio.Lock.acquire returns: the lock was free.  The lock keeps no owner
\* and is not re-entrant: the coroutine that holds it waits like any other.
AcquireLock(p) ==
    /\ tokens.call[p].pc = "acquire"
    /\ tokens.lock = Free
    /\ tokens' = [tokens EXCEPT !.lock = p, !.call[p].pc = "body"]
    /\ UNCHANGED <<silenced, clock, accounts, links, chats, scheduler, reminders,
                   tick, renotified, out>>

\* The body inside `async with _TOK_LOCK` of the function the coroutine is
\* in.  A return or a raise leaves `async with`, which releases the lock;
\* `return await get_app_access_token()` enters that function with the lock
\* still held.
RunBody(p, http) ==
    LET c == tokens.call[p]
        res == IF c.fn = "valid" THEN get_valid_access_token(tokens, c.uid, http)
               ELSE get_app_access_token(tokens, http)
    IN
    /\ c.pc = "body"
    /\ tokens' =
          IF res = "call_app"
          THEN [tokens EXCEPT !.call[p].fn = "app", !.call[p].pc = "acquire"]
          ELSE [tokens EXCEPT !.lock = Free,
                              !.store = StoreAfter(tokens, c.fn, c.uid, http),
                              !.cred = CredAfter(tokens, c.fn, http),
                              !.call[p] = [IdleCall EXCEPT !.result = res]]
    /\ UNCHANGED <<silenced, clock, accounts, links, chats, scheduler, reminders,
                   tick, renotified, out>>

\* public.avito_callback: store_tokens_for_user writes the record of uid
\* (without taking the lock)
store_tokens_for_user(uid) ==
    /\ tokens.store[uid] # "valid"
    /\ tokens' = [tokens EXCEPT !.store[uid] = "valid"]
    /\ UNCHANGED <<silenced, clock, accounts, links, chats, scheduler, reminders,
                   tick, renotified, out>>

TokNext ==
    \/ \E p \in Callers : \E uid \in Accounts : CallToken(p, uid)
    \/ \E p \in Callers : AcquireLock(p)
    \/ \E p \in Callers : \E http \in {"ok", "fail"} : RunBody(p, http)
    \/ \E uid \in Accounts : store_tokens_for_user(uid)

TokSpec == TokInit /\ [][TokNext]_vars

-----------------------------------------------------------------------------
(* The ticks under fair scheduling.  Account 1 has one chat, unmuted and
   without working hours, and the conversation-state query of its
   conversations answers with an incoming last message every time; what the
   query of the other account meets is free.  Every Telegram send to a chat
   and every write to the store succeeds. *)

LiveInit ==
    /\ clock = 0
    /\ accounts = Accounts
    /\ links = (<<1, 1>> :> DefaultLink)
    /\ chats = Dests
    /\ scheduler = StartedScheduler
    /\ tokens = NoTokens
    /\ silenced = {}
    /\ reminders = << >>
    /\ tick = IdleTick
    /\ renotified = << >>
    /\ out = NoOut

\* the query of a tick, Avito answering `in` for account 1
LiveFetch(row, kind, dir) ==
    /\ row.acct = 1 => (kind = "ok" /\ dir = "in")
    /\ TickFetch(row, kind, dir)

LiveNext ==
    \/ Advance
    \/ \E ev \in SignedEvents : WebhookSeller(ev)
    \/ \E ev \in SignedEvents :
          WebhookBuyer(ev, BroadcastTargets(links, ev.seller, clock))
    \/ TickStart
    \/ TickEnd
    \/ \E row \in tick.rows : \E kind \in RespKinds : \E dir \in Directions :
          LiveFetch(row, kind, dir)
    \/ TickNotify(TickTargets(links, tick.cur.acct, tick.now), TRUE)
    \/ \E ok \in BOOLEAN : TickFallback(ok, TRUE)
    \/ TickDelete(TRUE)

\* install: the scheduler starts remind_loop every REMIND_AFTER_MIN minutes,
\* and every await of the loop ends (the HTTP calls have timeouts): a step of
\* the tick that stays possible is taken.  The loop takes the rows in the
\* order the SELECT returned them: no row is owed a turn before another.
LiveFairness ==
    /\ WF_vars(TickStart)
    /\ WF_vars(TickEnd)
    /\ WF_vars(\E row \in tick.rows : \E kind \in RespKinds : \E dir \in Directions :
                   LiveFetch(row, kind, dir))
    /\ WF_vars(TickNotify(TickTargets(links, tick.cur.acct, tick.now), TRUE))
    /\ WF_vars(\E ok \in BOOLEAN : TickFallback(ok, TRUE))
    /\ WF_vars(TickDelete(TRUE))

LiveSpec == LiveInit /\ [][LiveNext]_vars /\ LiveFairness

-----------------------------------------------------------------------------
(* Properties *)

\* the conversation of the last step
OutConv == <<out.acct, out.chat>>

BuyerOps == {"buyer_done", "buyer_raised"}

\* the window of spec 4.1: always open without both bounds or with equal
\* bounds, [start, end) otherwise, around midnight when start > end
WindowOpen(local, start, end) ==
    \/ start = NULL
    \/ end = NULL
    \/ start = end
    \/ start < end /\ start <= local /\ local < end
    \/ start > end /\ (local >= start \/ local < end)

\* every chat linked to the account is muted or outside its window at `now`
AllGated(account, now) ==
    \A d \in Dests :
        <<account, d>> \in DOMAIN links =>
            \/ links[<<account, d>>].muted
            \/ ~ WindowOpen(LocalMinute(now, links[<<account, d>>].tz),
                            links[<<account, d>>].work_from,
                            links[<<account, d>>].work_to)

\* C1: after every buyer-message event the conversation has its one Reminder,
\* and the Reminder's first_ts is the time at which the first buyer message
\* was handled: the handling time of this event when no Reminder was open,
\* the first_ts the open Reminder already had otherwise.
C1_OneReminderKeepsFirstTs ==
    out.op \in BuyerOps =>
        /\ OutConv \in DOMAIN reminders
        /\ reminders[OutConv].first_ts =
              IF out.prev = NoReminder THEN out.at ELSE out.prev.first_ts

\* C2: when the handler of a seller message has completed, the conversation
\* has no open Reminder, whatever Reminder it had before.
C2_SellerMessageClears ==
    out.op = "seller" => OutConv \notin DOMAIN reminders

\* C2 witness: a seller message cleared a Reminder that had been re-notified
C2_Witness ==
    /\ out.op = "seller"
    /\ out.prev # NoReminder
    /\ out.prev.last_reminder # NULL
    /\ OutConv \notin DOMAIN reminders

\* C3: a buyer-message event for a conversation without an open Reminder ends
\* with an open Reminder whose last_reminder is null, whatever the broadcast
\* did (no chat linked, every chat gated, a send failing).
C3_FreshBuyerMessagePending ==
    (out.op \in BuyerOps /\ out.prev = NoReminder) =>
        /\ OutConv \in DOMAIN reminders
        /\ reminders[OutConv].last_reminder = NULL

\* C4: when a tick finds the status buyer and every chat of the account muted
\* or outside its window, the Reminder is left as it was, and so it is due at
\* every later tick.
C4_GatedTickLeavesReminder ==
    (out.op = "tick_notified" /\ AllGated(out.acct, out.at)) =>
        /\ RowOf(reminders, OutConv) = out.prev
        /\ out.prev # NoReminder =>
              \A t \in Times :
                  t >= clock =>
                      [acct |-> out.acct, chat |-> out.chat]
                          \in DueRows(reminders, accounts, t)

\* C4 witness: a tick met an open Reminder of an account whose chats are all
\* linked but gated
C4_Witness ==
    /\ out.op = "tick_notified"
    /\ AllGated(out.acct, out.at)
    /\ \E d \in Dests : <<out.acct, d>> \in DOMAIN links
    /\ out.prev # NoReminder
    /\ OutConv \in DOMAIN reminders

\* C5: when a tick finds the status buyer and at least one chat receives the
\* re-notification, the Reminder is open afterwards with its first_ts and
\* with last_reminder = the tick's instant (the store accepting the write).
C5_DeliveredTickStamps ==
    (/\ out.op \in {"tick_notified", "tick_aborted"}
     /\ out.reached # {}
     /\ out.prev # NoReminder
     /\ out.cause # "store") =>
        RowOf(reminders, OutConv) =
            [first_ts |-> out.prev.first_ts, last_reminder |-> out.at]

\* C6: the step of a tick for a row whose status is seller deletes the
\* Reminder and sends nothing (the store accepting the write).
C6_SellerStatusDeletes ==
    [][ (/\ tick.pc = "act"
         /\ tick.status = "seller"
         /\ tick' # tick
         /\ out'.op # "restart"
         /\ out'.cause # "store") =>
            /\ <<tick.cur.acct, tick.cur.chat>> \notin DOMAIN reminders'
            /\ out'.reached = {} ]_vars

\* C6 witness: a tick deleted an open Reminder on the status seller
C6_Witness ==
    /\ out.op = "tick_deleted"
    /\ out.prev # NoReminder
    /\ OutConv \notin DOMAIN reminders

\* C7: the step of a tick for a row whose status is unknown sends the
\* fallback notice and sets last_reminder to the tick's instant.
C7_UnknownStatusStamps ==
    [][ (/\ tick.pc = "act"
         /\ tick.status = "unknown"
         /\ tick' # tick
         /\ out'.op # "restart"
         /\ <<tick.cur.acct, tick.cur.chat>> \in DOMAIN reminders) =>
            /\ out'.op = "tick_fallback"
            /\ <<tick.cur.acct, tick.cur.chat>> \in DOMAIN reminders'
            /\ reminders'[<<tick.cur.acct, tick.cur.chat>>].last_reminder = tick.now ]_vars

\* C8: a failing external call (token, decoding, a send, the fallback notice)
\* stops a tick only when no selected row is left to process.
C8_ExternalFailureContained ==
    (out.op = "tick_aborted" /\ out.cause \in {"token", "decode", "send", "notice"}) =>
        out.left = {}

\* C9: a failing store write stops a tick only when no selected row is left
\* to process.
C9_StoreFailureContained ==
    (out.op = "tick_aborted" /\ out.cause = "store") => out.left = {}

\* C10: every fan-out (the immediate notification, the re-notification)
\* reaches every chat it selected, and no send failure leaves it.
C10_FanOutIndependent ==
    out.op \in BuyerOps \cup {"tick_notified", "tick_aborted"} =>
        /\ out.cause # "send"
        /\ out.reached = out.targets

\* the chats of the account that are linked, not muted and inside the window
\* of spec 4.1 at `now`
Eligible(account, now) ==
    { d \in Dests :
        /\ <<account, d>> \in DOMAIN links
        /\ ~ links[<<account, d>>].muted
        /\ WindowOpen(LocalMinute(now, links[<<account, d>>].tz),
                      links[<<account, d>>].work_from,
                      links[<<account, d>>].work_to) }

TickSendOps == {"tick_notified", "tick_aborted"}

DigestOps == {"digest", "digest_aborted"}

\* C11: no step lowers the last_reminder of an open Reminder: a row that has
\* a last_reminder keeps it or gets a later one.
C11_LastReminderNeverDecreases ==
    [][ \A c \in DOMAIN reminders \cap DOMAIN reminders' :
            reminders[c].last_reminder # NULL =>
                reminders'[c].last_reminder >= reminders[c].last_reminder ]_vars

\* C11 witness: a tick wrote a later last_reminder over an earlier one
C11_Witness ==
    /\ out.op = "tick_notified"
    /\ out.prev.last_reminder # NULL
    /\ OutConv \in DOMAIN reminders
    /\ reminders[OutConv].last_reminder > out.prev.last_reminder

\* C12: a re-notification of an open Reminder never reaches a chat that
\* another re-notification of the same Reminder reached less than one
\* reminder interval before.
C12_RenotificationsSpaced ==
    [][ (tick.pc = "act" /\ tick.status = "buyer" /\ tick' # tick
            /\ out'.op # "restart") =>
            \A d \in out'.reached :
                <<tick.cur.acct, tick.cur.chat, d>> \in DOMAIN renotified =>
                    clock - renotified[<<tick.cur.acct, tick.cur.chat, d>>]
                        >= REMIND_AFTER_MIN ]_vars

\* C13: a tick sends a re-notification only for a conversation whose Reminder
\* is open when it sends: after a seller message removed the Reminder, and
\* until a buyer message opens one again, the tick sends nothing for it.
C13_NoRenotifyAfterSellerReply ==
    (out.op \in TickSendOps /\ out.reached # {}) => out.prev # NoReminder

\* C14: _in_window decides as the window of spec 4.1 for every local minute
\* and every pair of bounds.
C14_InWindowIsReference ==
    out.op = "windows" =>
        (out.in_window <=> WindowOpen(out.local, out.start, out.end))

\* C14 witness: a window around midnight, evaluated after midnight and
\* before its end
C14_Witness ==
    /\ out.op = "windows"
    /\ out.start # NULL
    /\ out.end # NULL
    /\ out.start > out.end
    /\ out.local < out.end
    /\ out.in_window

\* C15: the tick's evaluator _within_hours and the broadcast's evaluator
\* _in_window give the same answer for every link and every minute, a window
\* with equal bounds included.
C15_EvaluatorsAgree ==
    out.op = "windows" => (out.within_hours <=> out.in_window)

\* C16: whatever a buyer notification, a re-notification or a digest of an
\* account reaches is a chat whose link with the account is not muted.
C16_NothingToMutedChats ==
    /\ out.op \in BuyerOps \cup TickSendOps =>
          \A d \in out.reached :
              /\ <<out.acct, d>> \in DOMAIN links
              /\ ~ links[<<out.acct, d>>].muted
    /\ out.op \in DigestOps =>
          \A p \in out.reached : p \in DOMAIN links /\ ~ links[p].muted

\* C16 witness: a digest went out at the minute at which a muted link of an
\* account with open Reminders has its digest time
C16_Witness ==
    /\ out.op = "digest"
    /\ out.reached # {}
    /\ \E p \in DOMAIN links :
          /\ links[p].muted
          /\ links[p].daily_digest_time # NULL
          /\ DigestTimeMatches(out.at, links[p].tz, links[p].daily_digest_time)
          /\ \E c \in DOMAIN reminders : c[1] = p[1]

\* C17: a buyer notification and a re-notification reach no chat that is
\* outside its working window, and when no send fails the fan-out ends
\* without an error having reached every chat that is not muted and that its
\* evaluator finds inside the window.
C17_OffHoursChatsSkipped ==
    /\ out.op \in BuyerOps \cup TickSendOps =>
          \A d \in out.reached : d \in Eligible(out.acct, out.at)
    /\ (out.op \in BuyerOps /\ out.cause = "none") =>
          /\ out.op = "buyer_done"
          /\ out.reached = BroadcastTargets(links, out.acct, out.at)
    /\ (out.op \in TickSendOps /\ out.cause = "none") =>
          /\ out.op = "tick_notified"
          /\ out.reached = TickTargets(links, out.acct, out.at)

\* C17 witness: a re-notification skipped a chat outside its hours and
\* reached another chat of the account
C17_Witness ==
    /\ out.op = "tick_notified"
    /\ out.reached # {}
    /\ \E d \in Dests :
          /\ <<out.acct, d>> \in DOMAIN links
          /\ ~ links[<<out.acct, d>>].muted
          /\ d \notin Eligible(out.acct, out.at)
          /\ d \notin out.reached

\* C18: the value the tick's fan-out returns is the number of chats that
\* received the re-notification, also when a send failed.
C18_ReturnsCountReached ==
    (out.op \in TickSendOps /\ out.cause \in {"none", "send"}) =>
        _notify_linked_chats_in_hours(out.targets, out.reached)
            = Cardinality(out.reached)

\* C19: a buyer message for a conversation with an open Reminder leaves the
\* Reminder as it was and is sent to every chat of the account that is not
\* muted and inside its window.  A fan-out stops at its first failing send,
\* so the chats it sent to are the chats it reached and at most one more.
C19_RepeatedBuyerMessage ==
    (out.op \in BuyerOps /\ out.prev # NoReminder) =>
        /\ RowOf(reminders, OutConv) = out.prev
        /\ out.reached \subseteq Eligible(out.acct, out.at)
        /\ Cardinality(Eligible(out.acct, out.at) \ out.reached) <= 1

\* C20: the step of a seller message sends nothing and changes the Reminder
\* of no other conversation.
C20_SellerMessageFrame ==
    [][ out'.op = "seller" =>
            /\ out'.targets = {}
            /\ out'.reached = {}
            /\ \A c \in (DOMAIN reminders \cup DOMAIN reminders') :
                   c # <<out'.acct, out'.chat>> =>
                       /\ c \in DOMAIN reminders
                       /\ c \in DOMAIN reminders'
                       /\ reminders'[c] = reminders[c] ]_vars

\* C20 witness: a seller message removed its Reminder while another
\* conversation had one
C20_Witness ==
    /\ out.op = "seller"
    /\ out.prev # NoReminder
    /\ OutConv \notin DOMAIN reminders
    /\ DOMAIN reminders # {}

\* the links whose digest is due at `now`: not muted, the chat's local
\* minute is the digest time, in the link's zone or in UTC without one, and
\* the account has open Reminders
DigestDue(now) ==
    { p \in DOMAIN links :
        /\ ~ links[p].muted
        /\ links[p].daily_digest_time # NULL
        /\ LocalMinute(now, links[p].tz) = links[p].daily_digest_time
        /\ \E c \in DOMAIN reminders : c[1] = p[1] }

\* C21: a digest tick sends its message to the links whose digest is due at
\* the tick's minute and to no other link, to all of them when no send fails,
\* and the message for a link lists every open Reminder of the link's account
\* once, in ascending order of first_ts.
C21_DigestAtLocalMinute ==
    out.op \in DigestOps =>
        /\ out.reached \subseteq DigestDue(out.at)
        /\ out.cause = "none" => out.reached = DigestDue(out.at)
        /\ \A p \in out.reached :
              LET l == out.lines[p] IN
              /\ { <<p[1], l[i].chat>> : i \in 1 .. Len(l) }
                    = { c \in DOMAIN reminders : c[1] = p[1] }
              /\ \A i, j \in 1 .. Len(l) :
                    i < j => /\ l[i].chat # l[j].chat
                             /\ l[i].minutes >= l[j].minutes

\* C22: a digest tick selects and reaches no link of an account that has no
\* open Reminder.
C22_NoDigestWithoutReminders ==
    out.op \in DigestOps =>
        \A p \in out.targets \cup out.reached :
            \E c \in DOMAIN reminders : c[1] = p[1]

\* C22 witness: a digest tick ran at the digest minute of a link that is not
\* muted and whose account has no open Reminder, and sent nothing
C22_Witness ==
    /\ out.op = "digest"
    /\ out.reached = {}
    /\ \E p \in DOMAIN links :
          /\ ~ links[p].muted
          /\ links[p].daily_digest_time # NULL
          /\ DigestTimeMatches(out.at, links[p].tz, links[p].daily_digest_time)
          /\ \A c \in DOMAIN reminders : c[1] # p[1]

WebhookOps == BuyerOps \cup {"seller", "rejected"}

\* C30: the step of a webhook request whose signature does not verify
\* rejects the request: it leaves the Reminders and the Accounts as they
\* were and selects and reaches no chat.
C30_UnverifiedEventRejected ==
    [][ (out'.op \in WebhookOps /\ ~ out'.verified) =>
            /\ out'.op = "rejected"
            /\ reminders' = reminders
            /\ accounts' = accounts
            /\ out'.targets = {}
            /\ out'.reached = {} ]_vars

FireOps == {"job_skipped", "job_missed", "job_started"}

\* C23: no job has more than one run in flight, and a trigger that fires
\* while a run of its job is in flight starts no run; the runs in flight of
\* the other job do not matter.
C23_OneRunPerJob ==
    [][ \A j \in Jobs :
            /\ scheduler'.instances[j] <= 1
            /\ (out'.op \in FireOps /\ out'.job = j /\ scheduler.instances[j] >= 1) =>
                  /\ out'.op = "job_skipped"
                  /\ scheduler'.instances = scheduler.instances ]_vars

\* C23 witness: a trigger of remind_loop fired with a run of remind_loop in
\* flight and was skipped, while a run of morning_digest was in flight too
C23_Witness ==
    /\ out.op = "job_skipped"
    /\ out.job = "remind_loop"
    /\ scheduler.instances["remind_loop"] = 1
    /\ scheduler.instances["morning_digest"] = 1

\* C24: the bulk clear for an account removes the Reminders of that account,
\* all of them, leaves the Reminders of the other accounts as they were, and
\* reports the number of Reminders it removed.
C24_ClearRemovesAccountsReminders ==
    [][ (out'.op = "clear_reminders" /\ out'.reply \in {"ok", "not_found"}) =>
            /\ DOMAIN reminders' = { c \in DOMAIN reminders : c[1] # out'.acct }
            /\ \A c \in DOMAIN reminders' : reminders'[c] = reminders[c]
            /\ out'.count =
                  Cardinality({ c \in DOMAIN reminders : c[1] = out'.acct }) ]_vars

\* C24 witness: a bulk clear removed the two Reminders of an account and
\* left a Reminder of the other account
C24_Witness ==
    /\ out.op = "clear_reminders"
    /\ out.reply = "ok"
    /\ out.count = 2
    /\ \A c \in DOMAIN reminders : c[1] # out.acct
    /\ DOMAIN reminders # {}

\* C25: after every step each Link and each Reminder belongs to an Account
\* that exists, and the step that deletes an account removes the account,
\* its Links and its Reminders and leaves the other accounts, their Links
\* and their Reminders as they were.
C25_DeleteAccountAtomic ==
    [][ /\ \A p \in DOMAIN links' : p[1] \in accounts'
        /\ \A c \in DOMAIN reminders' : c[1] \in accounts'
        /\ (out'.op = "delete_account" /\ out'.reply = "ok") =>
              /\ accounts' = accounts \ {out'.acct}
              /\ out'.acct \notin accounts'
              /\ links' = [p \in { x \in DOMAIN links : x[1] # out'.acct } |-> links[p]]
              /\ reminders' = [c \in { x \in DOMAIN reminders : x[1] # out'.acct }
                                  |-> reminders[c]] ]_vars

\* C25 witness: an account with Links and Reminders was deleted while the
\* other account had a Link and a Reminder
C25_Witness ==
    /\ out.op = "delete_account"
    /\ out.reply = "ok"
    /\ out.count >= 3
    /\ out.acct \notin accounts
    /\ DOMAIN links # {}
    /\ DOMAIN reminders # {}

\* C26: every Link is between an Account and a chat that both exist, and
\* after the bot was removed from a chat no Link of that chat is left.
C26_NoDanglingLink ==
    /\ \A p \in DOMAIN links : p[1] \in accounts /\ p[2] \in chats
    /\ out.op = "bot_removed" => \A p \in DOMAIN links : p[2] # out.dest

\* C26 witness: the bot was removed from a chat that had two Links while
\* the other chat had a Link
C26_Witness ==
    /\ out.op = "bot_removed"
    /\ out.count = 2
    /\ out.dest \notin chats
    /\ DOMAIN links # {}

\* the zones the deployment knows
ValidZones == {"null", "UTC", "Europe/Moscow"}

\* the argument of the /hours or /digest command of the last step is
\* malformed: a text of another format, a time out of range, or a zone that
\* does not exist
MalformedArg(o) ==
    \/ /\ o.op = "hours"
       /\ \/ ~ o.arg.wellformed
          \/ o.arg.from \notin DayMinutes
          \/ o.arg.to \notin DayMinutes
          \/ o.arg.tz \notin ValidZones
    \/ /\ o.op = "digest"
       /\ \/ o.arg.kind = "text"
          \/ o.arg.kind = "time" /\ o.arg.at \notin DayMinutes

\* C27: an /hours or /digest command with a malformed argument is answered
\* with an error and changes no Link.
C27_MalformedPolicyRejected ==
    [][ MalformedArg(out') =>
            /\ out'.reply \in {"error", "format", "denied"}
            /\ links' = links ]_vars

AccountOps == {"link", "unlink", "delete_account", "set_name"}

\* C28: a link, unlink, delete_account or set_name command of an admin that
\* names an account that does not exist is answered with an error and
\* changes nothing in the store.
C28_UnknownAccountRejected ==
    [][ (/\ out'.op \in AccountOps
         /\ out'.reply \notin {"denied", "none"}
         /\ out'.acct # NULL
         /\ out'.acct \notin accounts) =>
            /\ out'.reply = "error"
            /\ accounts' = accounts
            /\ links' = links
            /\ chats' = chats
            /\ reminders' = reminders ]_vars

\* the answer spec 4.4 gives for what the query met
ExpectedStatus(q) ==
    IF q.kind = "ok" THEN (IF q.dir = "in" THEN "buyer" ELSE "seller")
    ELSE "unknown"

\* C32: the conversation-state query yields buyer only for an incoming last
\* message and seller only for an outgoing one; whatever else it meets (a
\* network error, a non-200 answer, no last message, a last message without
\* a recognised direction, no token) it yields unknown, so that the tick goes
\* on with the row and the status unknown and does not delete the Reminder.
C32_QueryClassifies ==
    out.query # NoQuery =>
        /\ tick.pc = "act"
        /\ tick.cur = [acct |-> out.acct, chat |-> out.chat]
        /\ tick.status = ExpectedStatus(out.query)

\* the steps of remind_loop after its SELECT
TickOps == {"tick_query", "tick_notified", "tick_fallback", "tick_deleted",
            "tick_aborted", "tick_done"}

\* the rows a tick in flight still works on
TickWork == tick.rows \cup ({tick.cur} \ {NoRow})

\* C33: a tick selects a Reminder iff its last_reminder is null or the tick's
\* instant minus last_reminder is at least the reminder interval; the tick
\* adds no row to its selection later, and a step of the tick queries,
\* notifies, updates or deletes only a selected Reminder: the other rows are
\* as they were.
C33_TickSelectsDueRowsOnly ==
    [][ /\ (tick.pc = "idle" /\ tick'.pc = "fetch") =>
               \A c \in DOMAIN reminders :
                   [acct |-> c[1], chat |-> c[2]] \in tick'.rows <=>
                       \/ reminders[c].last_reminder = NULL
                       \/ tick'.now - reminders[c].last_reminder >= REMIND_AFTER_MIN
        /\ (tick.pc # "idle" /\ tick'.pc # "idle") =>
               (tick'.rows \cup ({tick'.cur} \ {NoRow})) \subseteq TickWork
        /\ (tick.pc # "idle" /\ out'.op \in TickOps) =>
               /\ out'.op # "tick_done" =>
                      [acct |-> out'.acct, chat |-> out'.chat] \in TickWork
               /\ \A c \in DOMAIN reminders :
                      [acct |-> c[1], chat |-> c[2]] \notin TickWork =>
                          /\ c \in DOMAIN reminders'
                          /\ reminders'[c] = reminders[c]
                          /\ c # <<out'.acct, out'.chat>> ]_vars

\* C33 witness: a tick is working on a selected Reminder while another
\* Reminder, re-notified less than one interval before the tick's instant,
\* was not selected
C33_Witness ==
    /\ out.op = "tick_query"
    /\ \E c \in DOMAIN reminders :
           /\ [acct |-> c[1], chat |-> c[2]] \notin TickWork
           /\ reminders[c].last_reminder # NULL
           /\ tick.now - reminders[c].last_reminder < REMIND_AFTER_MIN

\* C34: a buyer message handled after a tick's conversation-state query said
\* seller is not left without a Reminder: the step of the tick that follows
\* the handler leaves the conversation its Reminder.
C34_BuyerAfterQueryKeepsReminder ==
    [][ (/\ tick.pc = "act"
         /\ tick.status = "seller"
         /\ out.op = "buyer_done"
         /\ OutConv = <<tick.cur.acct, tick.cur.chat>>
         /\ out'.op \in TickOps) =>
            <<tick.cur.acct, tick.cur.chat>> \in DOMAIN reminders' ]_vars

\* C35: every open Reminder has last_reminder null or not before its first_ts
C35_LastReminderNotBeforeFirstTs ==
    \A c \in DOMAIN reminders :
        \/ reminders[c].last_reminder = NULL
        \/ reminders[c].last_reminder >= reminders[c].first_ts

\* C36: a conversation gets a Reminder only in the step of a buyer-message
\* event for it: no step of a tick creates a row, and the write of
\* last_reminder for a Reminder deleted since the selection creates none.
C36_OnlyBuyerMessageCreates ==
    [][ \A c \in DOMAIN reminders' \ DOMAIN reminders :
            /\ out'.op = "buyer_done"
            /\ c = <<out'.acct, out'.chat>> ]_vars

\* C36 witness: a tick delivered the re-notification of a Reminder that was
\* deleted after the selection, and its write left the conversation without
\* a Reminder
C36_Witness ==
    /\ out.op = "tick_notified"
    /\ out.reached # {}
    /\ out.prev = NoReminder
    /\ OutConv \notin DOMAIN reminders

\* a conversation of account 1, whose chat is always eligible under LiveSpec
LiveConv == <<1, 1>>

\* C31: under fair scheduling of the ticks, an open Reminder that is due,
\* whose conversation-state query keeps answering buyer and whose account
\* has an unmuted chat inside its window, is eventually re-notified, unless a
\* seller reply deletes it first; as the Reminder is due again one interval
\* later, this repeats for as long as it is open.
C31_DueReminderEventuallyRenotified ==
    (/\ LiveConv \in DOMAIN reminders
     /\ IsDue(reminders[LiveConv], clock)
     /\ Eligible(LiveConv[1], clock) # {})
        ~> (\/ LiveConv \notin DOMAIN reminders
            \/ /\ out.op = "tick_notified"
               /\ OutConv = LiveConv
               /\ out.reached # {})

\* C37: no call of get_valid_access_token blocks forever on _TOK_LOCK:
\* whenever a coroutine awaits the lock, the lock is free or the coroutine
\* that holds it is running the body that ends with its release; so every
\* call returns or raises, and a tick that needs a token finishes.
C37_NoCallerBlockedOnLock ==
    \A p \in Callers :
        tokens.call[p].pc = "acquire" =>
            \/ tokens.lock = Free
            \/ tokens.call[tokens.lock].pc = "body"

\* the fan-outs that deliver to the chats
DeliveryOps == BuyerOps \cup TickSendOps \cup DigestOps

\* the tg chats a fan-out reached (a digest reaches links)
ReachedChats(o) ==
    IF o.op \in DigestOps THEN { p[2] : p \in o.reached } ELSE o.reached

\* C38: after /mute on in a chat and until /mute off there, no immediate
\* notification, re-notification or digest reaches the chat, for any
\* account, also one linked to the chat after the /mute on.
C38_NothingAfterMuteOn ==
    out.op \in DeliveryOps => ReachedChats(out) \cap silenced = {}

\* the commands of a group that write links
GroupOps == {"link", "unlink", "mute", "hours", "digest"}

\* C39: a group command sent by a member who is no administrator of the
\* group changes no link: not its existence, muted, work_from, work_to, tz
\* or daily_digest_time.
C39_OnlyAdminsChangeLinks ==
    [][ (out'.op \in GroupOps /\ ~ out'.admin) => links' = links ]_vars

\* the fields of a link each policy command names
NamedFields(op) ==
    CASE op = "mute"   -> {"muted"}
      [] op = "hours"  -> {"work_from", "work_to", "tz"}
      [] op = "digest" -> {"daily_digest_time"}
      [] OTHER         -> {}

\* C40: /link for a pair that is linked leaves its one link as it is, with
\* its muted, work_from, work_to, tz and daily_digest_time; /mute, /hours
\* and /digest make and remove no link, change no link of another chat and
\* none of the fields they do not name.
C40_LinkIdempotentPolicyFramed ==
    [][ /\ (out'.op = "link" /\ <<out'.acct, out'.dest>> \in DOMAIN links) =>
               links' = links
        /\ out'.op \in {"mute", "hours", "digest"} =>
               /\ DOMAIN links' = DOMAIN links
               /\ \A p \in DOMAIN links :
                      /\ p[2] # out'.dest => links'[p] = links[p]
                      /\ \A f \in DOMAIN links[p] \ NamedFields(out'.op) :
                             links'[p][f] = links[p][f] ]_vars

\* C40 witness: /link was repeated by an administrator for a pair whose link
\* is muted and has working hours and a digest time, while the account has a
\* link with another policy in the other chat
C40_Witness ==
    /\ out.op = "link"
    /\ out.reply = "ok"
    /\ <<out.acct, out.dest>> \in DOMAIN links
    /\ links[<<out.acct, out.dest>>].muted
    /\ links[<<out.acct, out.dest>>].work_from # NULL
    /\ links[<<out.acct, out.dest>>].daily_digest_time # NULL
    /\ \E d \in Dests \ {out.dest} :
           /\ <<out.acct, d>> \in DOMAIN links
           /\ links[<<out.acct, d>>] = DefaultLink

====
